---- MODULE Spec2Model ----
(***************************************************************************)
(* The content-generation pipeline of airogue:                             *)
(* llm/generators/world_generator.py (WorldGenerator) with the schema      *)
(* classes of llm/models.py.                                               *)
(*                                                                         *)
(* One WorldGenerator instance is shared by up to MaxRuns calls of its     *)
(* public methods generate() and generate_items(), made one after another *)
(* (the generator is synchronous code: a call returns or raises before the *)
(* client can make the next).  A call is a sequence of steps; a step is    *)
(* the straight-line code around one CompletionService call (the blocking  *)
(* chain.invoke).  The CompletionService is the environment: every call of *)
(* it either raises ServiceError or returns one of a few completions.      *)
(*                                                                         *)
(* Around the pipeline, each with a specification of its own: the schema   *)
(* classes used on documents (SchemaSpec), the generator objects of        *)
(* llm/generators/base.py and their LLM client (GeneratorSpec), the        *)
(* command line of llm/generators/cli.py (CliSpec), new_world() of         *)
(* game/world_tools.py (NewWorldSpec) and InGame.on_event of               *)
(* game/states.py (EventSpec).                                             *)
(***************************************************************************)
EXTENDS Integers, Sequences, FiniteSets, TLC

\* Number of calls made on the one WorldGenerator instance.
MaxRuns == 2

\* Mutation of max_retries: the parsers are built with two repairs.
max_retries_two == 1 + 1

\* OutputFixingParser.from_llm(llm=..., parser=...) is built without a
\* max_retries argument, so the parser keeps its default of one repair.
max_retries == 1

Runs == 1..MaxRuns

None == "None"
Missing == "<missing>"

----------------------------------------------------------------------------
(* Values the CompletionService can return.                                *)

ThemeNames == {"T1", "T2"}
\* A title completion can be the empty text.
Titles == {"Ti", ""}
Plots == {"P"}

ThemeBatches == {<<>>, <<"T1">>, <<"T1", "T2">>}

\* A completion for a JSON stage: json = the text decodes as JSON,
\* key = the decoded object has the stage's list field, and list = that list.
NotJson == [json |-> FALSE, key |-> FALSE, list |-> <<>>]
JsonNoKey == [json |-> TRUE, key |-> FALSE, list |-> <<>>]
JsonList(l) == [json |-> TRUE, key |-> TRUE, list |-> l]

ThemeTexts == {NotJson, JsonNoKey} \cup {JsonList(b) : b \in ThemeBatches}

\* Entries of a decoded "mechanics" array, as plain dictionaries.
MechDict(n, d) == [cls |-> "dict", name |-> n, description |-> d]
MechLists ==
    { <<>>,
      <<MechDict("M1", "D")>>,
      <<MechDict("M1", "D"), MechDict("M2", "D")>>,
      <<MechDict("M1", Missing)>> }
MechTexts == {NotJson, JsonNoKey} \cup {JsonList(l) : l \in MechLists}

\* Entries of a decoded "items" array.
ItemDict(n, s, d) == [cls |-> "dict", name |-> n, ascii_symbol |-> s, description |-> d]

\* The same entry with one more key, the name of the mechanic it supports.
WithMechanic(d, m) ==
    [cls |-> "dict", name |-> d.name, ascii_symbol |-> d.ascii_symbol,
     description |-> d.description, supportingMechanic |-> m]

ItemLists ==
    { <<>>,
      <<ItemDict("I1", "/", "D")>>,
      <<ItemDict("I1", Missing, "D")>>,
      <<ItemDict("I1", "ab", "D"), ItemDict("I1", "/", "D")>>,
      <<WithMechanic(ItemDict("I2", "!", "D"), "M1")>> }
ItemTexts == {NotJson} \cup {JsonList(l) : l \in ItemLists}

----------------------------------------------------------------------------
(* llm/models.py and the parsers.                                          *)

\* GameMechanic(**d): name and description are required str fields.
GameMechanic(d) == [cls |-> "GameMechanic", name |-> d.name, description |-> d.description]
GameMechanicValid(d) == d.name # Missing /\ d.description # Missing

\* Item(**d): name, ascii_symbol and description are required str fields; a
\* key that names no field is ignored (the default Config of pydantic v1).
Item(d) == [cls |-> "Item", name |-> d.name, ascii_symbol |-> d.ascii_symbol,
            description |-> d.description]
ItemValid(d) == d.name # Missing /\ d.ascii_symbol # Missing /\ d.description # Missing

\* PydanticOutputParser(pydantic_object=GameMechanics).parse(text):
\* TRUE when the text decodes and validates as GameMechanics.
GmParses(text) ==
    /\ text.json
    /\ text.key
    /\ \A i \in DOMAIN text.list : GameMechanicValid(text.list[i])

\* The GameMechanics.mechanics of a parsed completion: GameMechanic objects.
GmParsed(text) == [i \in DOMAIN text.list |-> GameMechanic(text.list[i])]

\* PydanticOutputParser(pydantic_object=Items).parse(text).
ItemsParses(text) ==
    /\ text.json
    /\ text.key
    /\ \A i \in DOMAIN text.list : ItemValid(text.list[i])

ItemsParsed(text) == [i \in DOMAIN text.list |-> Item(text.list[i])]

\* Themes.themes: List[str] = Field(min_items=10, max_items=10).
min_items == 10
max_items == 10

\* Mutation of ThemeOutcomes: the parser answers with a theme of its own
\* instead of one drawn from the decoded list.
ThemeOutcomesAnyTheme(text) ==
    IF ~text.json THEN {[exc |-> "OutputParserException", value |-> None]}
    ELSE IF ~text.key THEN {[exc |-> "KeyError", value |-> None]}
    ELSE IF text.list = <<>> THEN {[exc |-> "IndexError", value |-> None]}
    ELSE {[exc |-> "none", value |-> t] : t \in ThemeNames}

\* SelectRandomThemeParser.parse_result: JsonOutputParser decodes the text
\* (no validation against Themes), ["themes"] is looked up and random.choice
\* picks one entry.  The set of possible outcomes.
ThemeOutcomes(text) ==
    IF ~text.json THEN {[exc |-> "OutputParserException", value |-> None]}
    ELSE IF ~text.key THEN {[exc |-> "KeyError", value |-> None]}
    ELSE IF text.list = <<>> THEN {[exc |-> "IndexError", value |-> None]}
    ELSE {[exc |-> "none", value |-> text.list[i]] : i \in DOMAIN text.list}

\* GameMechanics.__str__: "- " + "\n- ".join(self.mechanics).  str.join
\* accepts only str elements and self.mechanics holds GameMechanic objects,
\* so it raises TypeError unless the list is empty.
GameMechanicsStrRaises(mechanics) ==
    \E i \in DOMAIN mechanics : mechanics[i].cls # "str"

\* Names bound in the module namespace of world_generator.py by its imports.
\* json is imported only inside the __main__ block, GameMechanic is never
\* imported.
ImportedNames ==
    {"random", "itemgetter", "OutputFixingParser", "PydanticOutputParser",
     "JsonOutputParser", "StrOutputParser", "RunnableParallel", "identity",
     "BaseGenerator", "GameMechanics", "Items", "Themes", "WorldModel"}

\* The global_entities argument generate() passes to WorldModel: a dict.
GlobalEntitiesArg == [kind |-> "dict", entries |-> <<>>]

\* WorldModel(...) validation of global_entities: List[EntityModel] accepts a
\* list, not a dict.
WorldModelValid(global_entities) == global_entities.kind = "list"

\* The synthetic mechanic of the last-resort branch.
FallbackMechanic(theme, title) ==
    MechDict("Adventure in " \o theme,
             "Explore the world of " \o title \o " with unique challenges and discoveries.")

\* An entry of the design document: one "Kind: value\n" line.
DocLine(k, v) == [k |-> k, v |-> v]

\* What generate_title appends to self.design_doc.
TitleLines(theme, title) == <<DocLine("Theme", theme), DocLine("Title", title)>>

\* Mutation of PlotLines: generate_plot forgets the design document.
PlotLinesForgotten(plot) == <<>>

\* What generate_plot appends to self.design_doc.
PlotLines(plot) == <<DocLine("Plot", plot)>>

\* Mutation of AfterStage: generate() asks for the plot before the title.
AfterStageReordered(s) ==
    CASE s = "Theme" -> "plot"
      [] s = "Plot" -> "title"
      [] s = "Title" -> "mechanics"
      [] s = "Mechanics" -> "process"

\* generate(): where the run goes once a stage has returned.
AfterStage(s) ==
    CASE s = "Theme" -> "title"
      [] s = "Title" -> "plot"
      [] s = "Plot" -> "mechanics"
      [] s = "Mechanics" -> "process"

----------------------------------------------------------------------------
(* State.                                                                  *)

VARIABLES
    design_doc,   \* self.design_doc of the WorldGenerator instance
    op,           \* op[r]: the public method call r invoked
    pc,           \* pc[r]: where call r stands
    locals,       \* locals[r]: the local variables of call r
    err,          \* err[r]: the exception call r raised to its caller
    result,       \* result[r]: the WorldModel generate() returned, if any
    hist,         \* hist[r]: what an observer of call r has recorded; the
                  \* record of a call is kept until the next call is made
    schema,       \* a client's use of the schema classes of llm/models.py on a
                  \* document: construction, writing to a file, loading
    cli,          \* a run of llm/generators/cli.py: main() or generate_world()
    gen,          \* a generator object (a BaseGenerator subclass) and its client
    game          \* the game process: new_world() and InGame.on_event

vars == <<design_doc, op, pc, locals, err, result, hist, schema, cli, gen, game>>

StageNames == {"Theme", "Title", "Plot", "Mechanics", "Items", "Assembled"}

InitLocals ==
    [theme |-> None, title |-> None, plot |-> None,
     mechanics_list |-> <<>>, processed_mechanics |-> <<>>, idx |-> 0,
     game_mechanic |-> <<>>, all_items |-> <<>>,
     retries |-> 0, completion |-> NotJson]

InitHist ==
    [calls |-> [s \in StageNames |-> 0],   \* CompletionService calls per stage (Items:
                                           \* of the latest generate_items call)
     repairs |-> [s \in StageNames |-> 0], \* repair calls among them
     unparsed |-> {},                      \* stages whose first response did not parse
     stage_log |-> <<>>,                   \* stage start/return/raise events
     out |-> <<>>,                         \* theme, title, plot as the stages returned them
     items_doc |-> <<>>,                   \* design_doc as read by each items prompt
     items_arg |-> <<>>,                   \* names of the mechanics of the latest
                                           \* generate_items argument
     items_json |-> <<>>,                  \* did each completion given to item_parser decode
                                           \* (of the latest generate_items call)
     items_out |-> <<>>,                   \* what each generate_items call of generate() returned
     theme_batch |-> <<>>,                 \* the "themes" list random.choice picked from
     theme_args |-> <<>>,                  \* the theme argument of each later stage call
     gm_out |-> <<>>,                      \* names of what generate_game_mechanics returned
     gm_json |-> <<>>,                     \* did each completion given to gm_parser decode
     gm_path |-> "none",                   \* branch generate_game_mechanics took
     gm_raw |-> "none",                    \* did raw_result of the fallback decode as JSON
     svc_raised |-> FALSE,                 \* a CompletionService call raised
     parse_failed |-> FALSE]               \* a response stayed unparseable

\* A client that does nothing with the schema classes.
NoSchemaUse ==
    [target |-> "none", data |-> <<>>, pc |-> "idle", built |-> {}, err |-> "none",
     loc |-> {}, artifact |-> {}, reloaded |-> {}]

\* No run of cli.py.  entry: the function the run enters by; arg_key, env_key,
\* output: --api-key, OPENAI_API_KEY, --output; disk_ok: the output file can
\* be opened for writing; api_key: the key main() resolved; code: what main()
\* returned; world: what generate_world returned; file: the content of the
\* output file ({} while there is no file); generators, generates: how many
\* WorldGenerator objects were built and how many generate() calls were made.
NoCli ==
    [pc |-> "idle", entry |-> "none", arg_key |-> None, env_key |-> None,
     output |-> None, disk_ok |-> TRUE, api_key |-> None, code |-> {},
     err |-> "none", world |-> {}, file |-> {}, generators |-> 0, generates |-> 0]

\* No generator object.  cls: its class; api_key: the constructor argument;
\* env_key: OPENAI_API_KEY; llm: self._llm (0 is None, n the n-th client
\* created); clients: how many ChatOpenAI objects were created for it;
\* at_init: how many of them before the constructor returned; got: the clients
\* the accesses made after construction returned; out: what generate()
\* returned.
NoGeneratorObject ==
    [pc |-> "idle", cls |-> "none", api_key |-> None, env_key |-> None,
     llm |-> 0, clients |-> 0, at_init |-> 0, got |-> <<>>, out |-> <<>>,
     err |-> "none"]

\* No game process.  env_key: OPENAI_API_KEY; file: world_model.json;
\* world_model: the WorldModel loaded from it; slots: the slots bound on the
\* main component; emitted: the signals emitted, each with the slots bound at
\* that time; entities: the names of the global entities filed in the
\* registry; items: how many item entities were placed; returned: new_world
\* handed its Registry back.  For InGame.on_event: matches, duck: what the
\* component-less query of g.world yields; pos, time, text: the player's
\* Position, the "time" attribute, the text component; events: how many
\* events were handled; last, branch: the last one and the case it took.
NoGame ==
    [pc |-> "idle", env_key |-> None, file |-> [kind |-> "missing"], err |-> "none",
     world_model |-> {}, slots |-> {}, emitted |-> <<>>, entities |-> {},
     items |-> 0, returned |-> FALSE,
     matches |-> 0, duck |-> FALSE, pos |-> <<0, 0>>, time |-> 0, text |-> "",
     events |-> 0, branch |-> "none", last |-> [type |-> "none"]]

\* The WorldGenerator as __init__ leaves it, no call made yet.
NewGenerator ==
    /\ design_doc = <<>>
    /\ op = [r \in Runs |-> "none"]
    /\ pc = [r \in Runs |-> "idle"]
    /\ locals = [r \in Runs |-> InitLocals]
    /\ err = [r \in Runs |-> "none"]
    /\ result = [r \in Runs |-> {}]
    /\ hist = [r \in Runs |-> InitHist]

Init ==
    /\ NewGenerator
    /\ schema = NoSchemaUse
    /\ cli = NoCli
    /\ gen = NoGeneratorObject
    /\ game = NoGame

Ev(e, s) == [ev |-> e, stage |-> s]

\* h with one more CompletionService call counted for stage s.
Called(h, s) == [h EXCEPT !.calls[s] = @ + 1]

\* h with the events evs appended to the log of a generate() run.
Logged(h, evs) == [h EXCEPT !.stage_log = @ \o evs]

\* h with the theme argument of a call of generate_title, generate_plot or
\* generate_game_mechanics noted.
WithTheme(h, s, theme) ==
    [h EXCEPT !.theme_args = Append(@, [stage |-> s, theme |-> theme])]

\* The names of a list of mechanics or items.
Names(l) == [i \in DOMAIN l |-> l[i].name]

\* h once generate_game_mechanics has returned the list ml.
GmReturned(h, ml) ==
    Logged([h EXCEPT !.gm_out = Names(ml)], <<Ev("return", "Mechanics")>>)

\* The WorldModel generate() builds from its locals.
AssembledWorld(l) ==
    [theme |-> l.theme, title |-> l.title, plot |-> l.plot,
     mechanics |-> l.processed_mechanics, items |-> l.all_items,
     global_entities |-> GlobalEntitiesArg]

\* Mutation of Raise: the exception is swallowed at the top of generate() and
\* a WorldModel of whatever the locals hold is handed back.
RaiseReturningPartial(r, e) ==
    /\ pc' = [pc EXCEPT ![r] = "failed"]
    /\ err' = [err EXCEPT ![r] = e]
    /\ locals' = [locals EXCEPT ![r] = InitLocals]
    /\ result' = [result EXCEPT ![r] = {AssembledWorld(locals[r])}]

\* An exception leaves generate() / generate_items(): nothing catches it, the
\* frame is dropped and the caller gets the exception instead of a value.
Raise(r, e) ==
    /\ pc' = [pc EXCEPT ![r] = "failed"]
    /\ err' = [err EXCEPT ![r] = e]
    /\ locals' = [locals EXCEPT ![r] = InitLocals]
    /\ result' = result

\* Call r goes on at p with locals l.
Goto(r, p, l) ==
    /\ pc' = [pc EXCEPT ![r] = p]
    /\ locals' = [locals EXCEPT ![r] = l]
    /\ err' = err
    /\ result' = result

----------------------------------------------------------------------------
(* The calls a client makes on the generator.                              *)

\* Where a call stands once it has returned or raised.
Terminal == {"done", "failed"}

\* No call is running: the previous ones have returned or raised.
Quiet == \A q \in Runs : pc[q] \in {"idle", "done", "failed"}

\* A client calls generator.generate().  Calls are numbered in the order
\* they are made.
StartGenerate(r) ==
    /\ pc[r] = "idle"
    /\ Quiet
    /\ r > 1 => pc[r - 1] # "idle"
    /\ op' = [op EXCEPT ![r] = "generate"]
    /\ Goto(r, "themes", locals[r])
    /\ hist' = [q \in Runs |-> InitHist]
    /\ UNCHANGED design_doc

CallGenerate(r) ==
    /\ StartGenerate(r)
    /\ UNCHANGED <<schema, cli, gen, game>>

\* The GameMechanics objects a client passes to generate_items() directly.
DirectArgs == {<<>>, <<GameMechanic(MechDict("M1", "D"))>>}

\* A client calls generator.generate_items(game_mechanic).
CallGenerateItems(r, gm) ==
    /\ pc[r] = "idle"
    /\ Quiet
    /\ r > 1 => pc[r - 1] # "idle"
    /\ op' = [op EXCEPT ![r] = "generate_items"]
    /\ Goto(r, "items_prompt", [locals[r] EXCEPT !.game_mechanic = gm])
    /\ hist' = [q \in Runs |-> InitHist]
    /\ UNCHANGED <<design_doc, schema, cli, gen, game>>

----------------------------------------------------------------------------
(* generate(): theme, title, plot.                                         *)

\* generate_themes(): one call, parsed by SelectRandomThemeParser.
GenerateThemes(r) ==
    /\ pc[r] = "themes"
    /\ LET h == Called(hist[r], "Theme") IN
       \/ /\ Raise(r, "ServiceError")
          /\ hist' = [hist EXCEPT ![r] =
                 Logged([h EXCEPT !.svc_raised = TRUE],
                        <<Ev("start", "Theme"), Ev("raise", "Theme")>>)]
       \/ \E text \in ThemeTexts : \E o \in ThemeOutcomes(text) :
            IF o.exc = "none"
            THEN /\ Goto(r, AfterStage("Theme"), [locals[r] EXCEPT !.theme = o.value])
                 /\ hist' = [hist EXCEPT ![r] =
                        Logged([h EXCEPT !.out = Append(@, DocLine("Theme", o.value)),
                                         !.theme_batch = text.list],
                               <<Ev("start", "Theme"), Ev("return", "Theme")>>)]
            ELSE /\ Raise(r, o.exc)
                 /\ hist' = [hist EXCEPT ![r] =
                        Logged([h EXCEPT !.parse_failed = TRUE,
                                         !.unparsed = @ \cup {"Theme"}],
                               <<Ev("start", "Theme"), Ev("raise", "Theme")>>)]
    /\ UNCHANGED <<design_doc, op, schema, cli, gen, game>>

\* generate_title(theme): one call through StrOutputParser, then the theme
\* and the title are appended to self.design_doc.
GenerateTitle(r) ==
    /\ pc[r] = "title"
    /\ LET h == WithTheme(Called(hist[r], "Title"), "Title", locals[r].theme) IN
       \/ /\ Raise(r, "ServiceError")
          /\ hist' = [hist EXCEPT ![r] =
                 Logged([h EXCEPT !.svc_raised = TRUE],
                        <<Ev("start", "Title"), Ev("raise", "Title")>>)]
          /\ UNCHANGED design_doc
       \/ \E t \in Titles :
            /\ design_doc' = design_doc \o TitleLines(locals[r].theme, t)
            /\ Goto(r, AfterStage("Title"), [locals[r] EXCEPT !.title = t])
            /\ hist' = [hist EXCEPT ![r] =
                   Logged([h EXCEPT !.out = Append(@, DocLine("Title", t))],
                          <<Ev("start", "Title"), Ev("return", "Title")>>)]
    /\ UNCHANGED <<op, schema, cli, gen, game>>

\* generate_plot(theme, title): one call through StrOutputParser, then the
\* plot is appended to self.design_doc.
GeneratePlot(r) ==
    /\ pc[r] = "plot"
    /\ LET h == WithTheme(Called(hist[r], "Plot"), "Plot", locals[r].theme) IN
       \/ /\ Raise(r, "ServiceError")
          /\ hist' = [hist EXCEPT ![r] =
                 Logged([h EXCEPT !.svc_raised = TRUE],
                        <<Ev("start", "Plot"), Ev("raise", "Plot")>>)]
          /\ UNCHANGED design_doc
       \/ \E p \in Plots :
            /\ design_doc' = design_doc \o PlotLines(p)
            /\ Goto(r, AfterStage("Plot"), [locals[r] EXCEPT !.plot = p])
            /\ hist' = [hist EXCEPT ![r] =
                   Logged([h EXCEPT !.out = Append(@, DocLine("Plot", p))],
                          <<Ev("start", "Plot"), Ev("return", "Plot")>>)]
    /\ UNCHANGED <<op, schema, cli, gen, game>>

----------------------------------------------------------------------------
(* generate_game_mechanics(theme, title, plot).                            *)

\* try: (self.partial_chain | self.gm_parser).invoke(prompt).  The first
\* call; gm_parser parses the completion and, when that fails and a retry is
\* left, goes on to its repair call.  Whatever is raised inside the try is
\* caught by "except Exception" and leads to the fallback branch.
GenerateGameMechanics(r) ==
    /\ pc[r] = "mechanics"
    /\ LET h == Logged(WithTheme(Called(hist[r], "Mechanics"), "Mechanics", locals[r].theme),
                        <<Ev("start", "Mechanics")>>) IN
       \/ /\ Goto(r, "gm_fallback", locals[r])
          /\ hist' = [hist EXCEPT ![r] =
                 [h EXCEPT !.svc_raised = TRUE, !.gm_path = "fallback"]]
       \/ \E text \in MechTexts :
            LET g == [h EXCEPT !.gm_json = Append(@, text.json)] IN
            IF GmParses(text)
            THEN /\ Goto(r, AfterStage("Mechanics"),
                         [locals[r] EXCEPT !.completion = text,
                                           !.mechanics_list = GmParsed(text)])
                 /\ hist' = [hist EXCEPT ![r] =
                        GmReturned([g EXCEPT !.gm_path = "direct"], GmParsed(text))]
            ELSE IF max_retries = 0
            THEN /\ Goto(r, "gm_fallback", [locals[r] EXCEPT !.completion = text])
                 /\ hist' = [hist EXCEPT ![r] =
                        [g EXCEPT !.unparsed = @ \cup {"Mechanics"},
                                  !.parse_failed = TRUE, !.gm_path = "fallback"]]
            ELSE /\ Goto(r, "gm_repair",
                         [locals[r] EXCEPT !.completion = text, !.retries = 1])
                 /\ hist' = [hist EXCEPT ![r] =
                        [g EXCEPT !.unparsed = @ \cup {"Mechanics"}]]
    /\ UNCHANGED <<design_doc, op, schema, cli, gen, game>>

\* The repair call of gm_parser (its retry chain) and the parse of what it
\* returns; still inside the try of generate_game_mechanics.
GmRepair(r) ==
    /\ pc[r] = "gm_repair"
    /\ LET h == [Called(hist[r], "Mechanics") EXCEPT !.repairs["Mechanics"] = @ + 1] IN
       \/ /\ Goto(r, "gm_fallback", locals[r])
          /\ hist' = [hist EXCEPT ![r] =
                 [h EXCEPT !.svc_raised = TRUE, !.gm_path = "fallback"]]
       \/ \E text \in MechTexts :
            LET g == [h EXCEPT !.gm_json = Append(@, text.json)] IN
            IF GmParses(text)
            THEN /\ Goto(r, AfterStage("Mechanics"),
                         [locals[r] EXCEPT !.completion = text,
                                           !.mechanics_list = GmParsed(text)])
                 /\ hist' = [hist EXCEPT ![r] =
                        GmReturned([g EXCEPT !.gm_path = "repaired"], GmParsed(text))]
            ELSE IF locals[r].retries = max_retries
            THEN /\ Goto(r, "gm_fallback", [locals[r] EXCEPT !.completion = text])
                 /\ hist' = [hist EXCEPT ![r] =
                        [g EXCEPT !.parse_failed = TRUE, !.gm_path = "fallback"]]
            ELSE /\ Goto(r, "gm_repair",
                         [locals[r] EXCEPT !.completion = text, !.retries = @ + 1])
                 /\ hist' = [hist EXCEPT ![r] = g]
    /\ UNCHANGED <<design_doc, op, schema, cli, gen, game>>

\* except Exception: the prompt is sent once more through StrOutputParser,
\* then json.loads(raw_result) is tried and, on json.JSONDecodeError, the
\* synthetic mechanic is returned.  The name json is looked up in the module
\* namespace when the line runs.
GmFallback(r) ==
    /\ pc[r] = "gm_fallback"
    /\ LET h == Called(hist[r], "Mechanics") IN
       \/ /\ Raise(r, "ServiceError")
          /\ hist' = [hist EXCEPT ![r] =
                 Logged([h EXCEPT !.svc_raised = TRUE], <<Ev("raise", "Mechanics")>>)]
       \/ \E raw_result \in MechTexts :
            LET g == [h EXCEPT !.gm_raw = IF raw_result.json THEN "json" ELSE "not_json"] IN
            IF "json" \notin ImportedNames
            THEN /\ Raise(r, "NameError")
                 /\ hist' = [hist EXCEPT ![r] = Logged(g, <<Ev("raise", "Mechanics")>>)]
            ELSE IF raw_result.json /\ raw_result.key
            THEN /\ Goto(r, AfterStage("Mechanics"),
                         [locals[r] EXCEPT !.mechanics_list = raw_result.list])
                 /\ hist' = [hist EXCEPT ![r] =
                        GmReturned([g EXCEPT !.gm_path = "raw_json"], raw_result.list)]
            ELSE IF raw_result.json
            THEN /\ Raise(r, "ValueError")
                 /\ hist' = [hist EXCEPT ![r] = Logged(g, <<Ev("raise", "Mechanics")>>)]
            ELSE /\ Goto(r, AfterStage("Mechanics"),
                         [locals[r] EXCEPT !.mechanics_list =
                              <<FallbackMechanic(locals[r].theme, locals[r].title)>>])
                 /\ hist' = [hist EXCEPT ![r] =
                        GmReturned([g EXCEPT !.gm_path = "synthetic"],
                                   <<FallbackMechanic(locals[r].theme, locals[r].title)>>)]
    /\ UNCHANGED <<design_doc, op, schema, cli, gen, game>>

----------------------------------------------------------------------------
(* generate(): from the mechanics to the WorldModel.                       *)

\* The conversion loop: a dict becomes GameMechanic(**mech), anything else
\* is kept; then GameMechanics(mechanics=processed_mechanics) and
\* all_items = [].
ProcessMechanics(r) ==
    /\ pc[r] = "process"
    /\ LET ml == locals[r].mechanics_list
           dicts == {i \in DOMAIN ml : ml[i].cls = "dict"}
       IN
       IF dicts # {} /\ "GameMechanic" \notin ImportedNames
       THEN /\ Raise(r, "NameError")
            /\ hist' = hist
       ELSE IF \E i \in dicts : ~GameMechanicValid(ml[i])
       THEN /\ Raise(r, "ValidationError")
            /\ hist' = hist
       ELSE /\ Goto(r, "items_loop",
                    [locals[r] EXCEPT
                        !.processed_mechanics =
                            [i \in DOMAIN ml |->
                                IF i \in dicts THEN GameMechanic(ml[i]) ELSE ml[i]],
                        !.idx = 1, !.all_items = <<>>])
            /\ hist' = [hist EXCEPT ![r] = Logged(@, <<Ev("start", "Items")>>)]
    /\ UNCHANGED <<design_doc, op, schema, cli, gen, game>>

\* for mechanic in processed_mechanics: wrap the mechanic into a GameMechanics
\* of its own and call generate_items; after the last one, assemble.
ItemsLoop(r) ==
    /\ pc[r] = "items_loop"
    /\ LET pm == locals[r].processed_mechanics
           i == locals[r].idx
       IN
       IF i > Len(pm)
       THEN /\ Goto(r, "assemble", locals[r])
            /\ hist' = [hist EXCEPT ![r] = Logged(@, <<Ev("return", "Items")>>)]
       ELSE /\ Goto(r, "items_prompt", [locals[r] EXCEPT !.game_mechanic = <<pm[i]>>])
            /\ hist' = hist
    /\ UNCHANGED <<design_doc, op, schema, cli, gen, game>>

\* generate_items(game_mechanic), the prompt: the f-string reads
\* self.design_doc and then str(game_mechanic).
GenerateItemsPrompt(r) ==
    /\ pc[r] = "items_prompt"
    /\ LET h == [hist[r] EXCEPT !.items_doc = Append(@, design_doc),
                                !.items_arg = Names(locals[r].game_mechanic),
                                !.calls["Items"] = 0, !.repairs["Items"] = 0,
                                !.items_json = <<>>,
                                !.unparsed = @ \ {"Items"}] IN
       IF GameMechanicsStrRaises(locals[r].game_mechanic)
       THEN /\ Raise(r, "TypeError")
            /\ hist' = [hist EXCEPT ![r] =
                   IF op[r] = "generate" THEN Logged(h, <<Ev("raise", "Items")>>) ELSE h]
       ELSE /\ Goto(r, "items_invoke", locals[r])
            /\ hist' = [hist EXCEPT ![r] = h]
    /\ UNCHANGED <<design_doc, op, schema, cli, gen, game>>

\* generate_items returns items: to the client of a direct call, or into
\* all_items.extend(items) and the next turn of the loop of generate().
ReturnItems(r, text) ==
    IF op[r] = "generate_items"
    THEN Goto(r, "done", [locals[r] EXCEPT !.completion = text,
                                          !.all_items = ItemsParsed(text)])
    ELSE Goto(r, "items_loop",
              [locals[r] EXCEPT !.completion = text,
                                !.all_items = @ \o ItemsParsed(text),
                                !.idx = @ + 1])

\* What a return of generate_items records.
ItemsReturned(r, h, text) ==
    IF op[r] = "generate"
    THEN [h EXCEPT !.items_out = Append(@, ItemsParsed(text))]
    ELSE h

\* What a raise inside generate_items records.
ItemsRaised(r, h) ==
    IF op[r] = "generate" THEN Logged(h, <<Ev("raise", "Items")>>) ELSE h

\* (self.partial_chain | self.item_parser).invoke(items_prompt): the first
\* call and the parse of item_parser.  Nothing here is caught.
GenerateItemsInvoke(r) ==
    /\ pc[r] = "items_invoke"
    /\ LET h == Called(hist[r], "Items") IN
       \/ /\ Raise(r, "ServiceError")
          /\ hist' = [hist EXCEPT ![r] = ItemsRaised(r, [h EXCEPT !.svc_raised = TRUE])]
       \/ \E text \in ItemTexts :
            LET g == [h EXCEPT !.items_json = Append(@, text.json)] IN
            IF ItemsParses(text)
            THEN /\ ReturnItems(r, text)
                 /\ hist' = [hist EXCEPT ![r] = ItemsReturned(r, g, text)]
            ELSE IF max_retries = 0
            THEN /\ Raise(r, "OutputParserException")
                 /\ hist' = [hist EXCEPT ![r] =
                        ItemsRaised(r, [g EXCEPT !.unparsed = @ \cup {"Items"},
                                                 !.parse_failed = TRUE])]
            ELSE /\ Goto(r, "items_repair",
                         [locals[r] EXCEPT !.completion = text, !.retries = 1])
                 /\ hist' = [hist EXCEPT ![r] =
                        [g EXCEPT !.unparsed = @ \cup {"Items"}]]
    /\ UNCHANGED <<design_doc, op, schema, cli, gen, game>>

\* The repair call of item_parser and the parse of what it returns.
GenerateItemsRepair(r) ==
    /\ pc[r] = "items_repair"
    /\ LET h == [Called(hist[r], "Items") EXCEPT !.repairs["Items"] = @ + 1] IN
       \/ /\ Raise(r, "ServiceError")
          /\ hist' = [hist EXCEPT ![r] = ItemsRaised(r, [h EXCEPT !.svc_raised = TRUE])]
       \/ \E text \in ItemTexts :
            LET g == [h EXCEPT !.items_json = Append(@, text.json)] IN
            IF ItemsParses(text)
            THEN /\ ReturnItems(r, text)
                 /\ hist' = [hist EXCEPT ![r] = ItemsReturned(r, g, text)]
            ELSE IF locals[r].retries = max_retries
            THEN /\ Raise(r, "OutputParserException")
                 /\ hist' = [hist EXCEPT ![r] =
                        ItemsRaised(r, [g EXCEPT !.parse_failed = TRUE])]
            ELSE /\ Goto(r, "items_repair",
                         [locals[r] EXCEPT !.completion = text, !.retries = @ + 1])
                 /\ hist' = [hist EXCEPT ![r] = g]
    /\ UNCHANGED <<design_doc, op, schema, cli, gen, game>>

\* return WorldModel(theme=..., ..., global_entities={}): pydantic validates
\* the arguments; the model is returned only when they validate.
Assemble(r) ==
    /\ pc[r] = "assemble"
    /\ IF WorldModelValid(GlobalEntitiesArg)
       THEN /\ pc' = [pc EXCEPT ![r] = "done"]
            /\ result' = [result EXCEPT ![r] = {AssembledWorld(locals[r])}]
            /\ UNCHANGED <<locals, err>>
            /\ hist' = [hist EXCEPT ![r] =
                   Logged(@, <<Ev("start", "Assembled"), Ev("return", "Assembled")>>)]
       ELSE /\ Raise(r, "ValidationError")
            /\ hist' = [hist EXCEPT ![r] =
                   Logged(@, <<Ev("start", "Assembled"), Ev("raise", "Assembled")>>)]
    /\ UNCHANGED <<design_doc, op, schema, cli, gen, game>>

----------------------------------------------------------------------------

Next ==
    \E r \in Runs :
        \/ CallGenerate(r)
        \/ \E gm \in DirectArgs : CallGenerateItems(r, gm)
        \/ GenerateThemes(r)
        \/ GenerateTitle(r)
        \/ GeneratePlot(r)
        \/ GenerateGameMechanics(r)
        \/ GmRepair(r)
        \/ GmFallback(r)
        \/ ProcessMechanics(r)
        \/ ItemsLoop(r)
        \/ GenerateItemsPrompt(r)
        \/ GenerateItemsInvoke(r)
        \/ GenerateItemsRepair(r)
        \/ Assemble(r)

Spec == Init /\ [][Next]_vars

----------------------------------------------------------------------------
(* The schema classes of llm/models.py used on documents: the constructors *)
(* of WorldModel and Item, the two writers of the world file, its loader.   *)

\* A document value for the "mechanics" or "items" key: an object with the one
\* array field, or no such key.
ObjectOf(l) == [kind |-> "object", list |-> l]
Absent == [kind |-> "missing", list |-> <<>>]

\* An entry of global_entities as written in a document.  key is the name it
\* is filed under when global_entities is a mapping, None in a list.
EntityDoc(k, n, u) ==
    [key |-> k, name |-> n, uid |-> u, components |-> <<[name |-> "main"]>>]

\* The global_entities values of the documents: no key, a mapping (empty, or
\* the one of the test fixture), a list (empty, an entity with a uid, one
\* without, one without a name).
GlobalEntitiesDocs ==
    { [kind |-> "missing", entries |-> <<>>],
      GlobalEntitiesArg,
      [kind |-> "dict", entries |-> <<EntityDoc("Game", Missing, Missing)>>],
      [kind |-> "list", entries |-> <<>>],
      [kind |-> "list", entries |-> <<EntityDoc(None, "Game", "u1")>>],
      [kind |-> "list", entries |-> <<EntityDoc(None, "Game", Missing)>>],
      [kind |-> "list", entries |-> <<EntityDoc(None, Missing, "u1")>>] }

\* The documents a client builds a WorldModel from.
WorldDocs ==
    [theme : {"T1", Missing}, title : {"Ti", Missing}, plot : {"P", Missing},
     mechanics : {Absent} \cup {ObjectOf(l) : l \in MechLists},
     items : {Absent} \cup {ObjectOf(l) : l \in ItemLists},
     global_entities : GlobalEntitiesDocs]

\* The dictionaries a client builds an Item from.
ItemDocs == {ItemDict(n, a, d) : n \in {"I1", Missing}, a \in {"/", Missing}, d \in {"D", Missing}}

\* The part of a ValidationError that names the offending fields: the loc of
\* each error a field validator raised, under the path at.
ItemErrors(d, at) ==
    {at \o <<f>> : f \in {g \in {"name", "ascii_symbol", "description"} : d[g] = Missing}}

GameMechanicErrors(d, at) ==
    {at \o <<f>> : f \in {g \in {"name", "description"} : d[g] = Missing}}

\* EntityModel(**d): name is required, uid and components have defaults.
EntityModelErrors(d, at) == IF d.name = Missing THEN {at \o <<"name">>} ELSE {}

\* EntityModel(**d).  uid: Union[str, int, object] with default_factory=object:
\* a uid that is given is kept as a str, one that is not is a new object(),
\* here the one made for entry i of construction id.
EntityModel(d, id, i) ==
    [name |-> d.name,
     uid |-> IF d.uid = Missing
             THEN [kind |-> "object", v |-> id \o "#" \o ToString(i)]
             ELSE [kind |-> "str", v |-> d.uid],
     components |-> d.components]

\* Mutation of WorldModelErrors: plot has a default, so a document without a
\* plot is accepted.
WorldModelErrorsPlotOptional(doc) ==
    {<<f>> : f \in {g \in {"theme", "title"} : doc[g] = Missing}}
        \cup (IF doc.mechanics.kind = "missing" THEN {<<"mechanics">>} ELSE {})
        \cup (IF doc.items.kind = "missing" THEN {<<"items">>} ELSE {})

\* WorldModel(**doc): the loc of every error of the ValidationError it raises,
\* {} when the document validates.  theme, title, plot, mechanics and items are
\* required; global_entities defaults to [] and must be a list.
WorldModelErrors(doc) ==
    {<<f>> : f \in {g \in {"theme", "title", "plot"} : doc[g] = Missing}}
        \cup (IF doc.mechanics.kind = "missing" THEN {<<"mechanics">>}
              ELSE UNION {GameMechanicErrors(doc.mechanics.list[i],
                                             <<"mechanics", "mechanics", ToString(i - 1)>>) :
                          i \in DOMAIN doc.mechanics.list})
        \cup (IF doc.items.kind = "missing" THEN {<<"items">>}
              ELSE UNION {ItemErrors(doc.items.list[i],
                                     <<"items", "items", ToString(i - 1)>>) :
                          i \in DOMAIN doc.items.list})
        \cup (IF doc.global_entities.kind = "missing" THEN {}
              ELSE IF ~WorldModelValid(doc.global_entities) THEN {<<"global_entities">>}
              ELSE UNION {EntityModelErrors(doc.global_entities.entries[i],
                                            <<"global_entities", ToString(i - 1)>>) :
                          i \in DOMAIN doc.global_entities.entries})

\* WorldModel(**doc) for a document that validates; id tells the objects of
\* this construction from those of another.
WorldModel(doc, id) ==
    [theme |-> doc.theme, title |-> doc.title, plot |-> doc.plot,
     mechanics |-> [i \in DOMAIN doc.mechanics.list |-> GameMechanic(doc.mechanics.list[i])],
     items |-> [i \in DOMAIN doc.items.list |-> Item(doc.items.list[i])],
     global_entities |->
        [i \in DOMAIN doc.global_entities.entries |->
            EntityModel(doc.global_entities.entries[i], id, i)]]

\* The methods a pydantic v1 BaseModel (langchain_core.pydantic_v1) has for
\* export and loading.
BaseModelMethods == {"dict", "json", "copy", "parse_obj", "parse_raw", "parse_file"}

\* The method each writer of the world file calls on the WorldModel:
\* generate_world of cli.py and the __main__ block of world_generator.py.
Writers == {"cli", "world_generator"}
WriterMethod(w) == IF w = "cli" THEN "model_dump_json" ELSE "json"

\* json.dumps can encode the model: str uids, but no bare object().
JsonSerializable(w) ==
    \A i \in DOMAIN w.global_entities : w.global_entities[i].uid.kind = "str"

\* world.json(): the document the model is written as.
Json(w) ==
    [theme |-> w.theme, title |-> w.title, plot |-> w.plot,
     mechanics |-> ObjectOf([i \in DOMAIN w.mechanics |->
                      MechDict(w.mechanics[i].name, w.mechanics[i].description)]),
     items |-> ObjectOf([i \in DOMAIN w.items |->
                  ItemDict(w.items[i].name, w.items[i].ascii_symbol,
                           w.items[i].description)]),
     global_entities |->
        [kind |-> "list",
         entries |-> [i \in DOMAIN w.global_entities |->
                        EntityDoc(None, w.global_entities[i].name,
                                  w.global_entities[i].uid.v)]]]

\* What a client starts from: a document for WorldModel or for Item.
SchemaUses ==
    {[NoSchemaUse EXCEPT !.target = "WorldModel", !.data = d, !.pc = "new"] : d \in WorldDocs}
        \cup {[NoSchemaUse EXCEPT !.target = "Item", !.data = d, !.pc = "new"] : d \in ItemDocs}

SchemaInit ==
    /\ NewGenerator
    /\ schema \in SchemaUses
    /\ cli = NoCli
    /\ gen = NoGeneratorObject
    /\ game = NoGame

\* WorldModel(**data) or Item(**data): the object, or ValidationError.
Construct ==
    /\ schema.pc = "new"
    /\ LET errors == IF schema.target = "Item"
                     THEN ItemErrors(schema.data, <<>>)
                     ELSE WorldModelErrors(schema.data)
       IN
       schema' =
          IF errors # {}
          THEN [schema EXCEPT !.pc = "invalid", !.err = "ValidationError", !.loc = errors]
          ELSE [schema EXCEPT !.pc = "built",
                              !.built = IF schema.target = "Item"
                                        THEN {Item(schema.data)}
                                        ELSE {WorldModel(schema.data, "a")}]
    /\ UNCHANGED <<design_doc, op, pc, locals, err, result, hist, cli, gen, game>>

\* f.write(world.model_dump_json(indent=2)) / f.write(world.json(indent=2)).
Write(writer) ==
    /\ schema.pc = "built"
    /\ schema.target = "WorldModel"
    /\ \E w \in schema.built :
          schema' =
             IF WriterMethod(writer) \notin BaseModelMethods
             THEN [schema EXCEPT !.pc = "write_failed", !.err = "AttributeError"]
             ELSE IF ~JsonSerializable(w)
             THEN [schema EXCEPT !.pc = "write_failed", !.err = "TypeError"]
             ELSE [schema EXCEPT !.pc = "written", !.artifact = {Json(w)}]
    /\ UNCHANGED <<design_doc, op, pc, locals, err, result, hist, cli, gen, game>>

\* WorldModel(**json.load(f)): the file is read back.
Load ==
    /\ schema.pc = "written"
    /\ \E doc \in schema.artifact :
          schema' =
             IF WorldModelErrors(doc) # {}
             THEN [schema EXCEPT !.pc = "load_failed", !.err = "ValidationError",
                                 !.loc = WorldModelErrors(doc)]
             ELSE [schema EXCEPT !.pc = "loaded", !.reloaded = {WorldModel(doc, "b")}]
    /\ UNCHANGED <<design_doc, op, pc, locals, err, result, hist, cli, gen, game>>

SchemaNext ==
    \/ Construct
    \/ \E writer \in Writers : Write(writer)
    \/ Load

SchemaSpec == SchemaInit /\ [][SchemaNext]_vars

----------------------------------------------------------------------------
(* Generator objects: llm/generators/base.py and the constructors of its    *)
(* subclasses.                                                              *)

\* How many times a client reads the llm property of one generator object.
MaxReads == 2

\* How many times a client calls generate() on one TitleGenerator.
MaxTitles == 1

GeneratorClasses ==
    {"ThemeGenerator", "TitleGenerator", "PlotGenerator", "MechanicsGenerator",
     "ItemGenerator", "WorldGenerator"}

\* The classes whose __init__ reads self.llm: each passes llm=self.llm to
\* OutputFixingParser.from_llm (WorldGenerator also builds its chains on it).
EagerClasses == {"MechanicsGenerator", "ItemGenerator", "WorldGenerator"}

\* What --api-key / the api_key argument and OPENAI_API_KEY can hold.
KeyValues == {None, "", "k"}
EnvValues == {None, "e"}

\* bool(v) of an optional string.
Truthy(v) == v \notin {None, ""}

\* Mutation of ChatOpenAIRaises: the client is built without any key.
ChatOpenAINeverRaises(api_key, env_key) == FALSE

\* ChatOpenAI(**kwargs) raises when it finds no key: kwargs holds api_key
\* only "if self.api_key", and the client falls back on OPENAI_API_KEY.
ChatOpenAIRaises(api_key, env_key) == ~Truthy(api_key) /\ env_key = None

\* One read of the llm property of the generator object g: the object after
\* the read (err set when creating the client raised); the value read is its
\* llm field.
Llm(g) ==
    IF g.llm # 0 THEN g
    ELSE IF ChatOpenAIRaises(g.api_key, g.env_key) THEN [g EXCEPT !.err = "OpenAIError"]
    ELSE [g EXCEPT !.llm = g.clients + 1, !.clients = @ + 1]

\* cls(api_key=api_key): BaseGenerator.__init__ sets self._llm = None, then
\* the body of the subclass runs.  The object the caller gets, or pc "failed"
\* when the constructor raised.
NewObject(cls, api_key, env_key) ==
    LET self == [NoGeneratorObject EXCEPT !.cls = cls, !.api_key = api_key,
                                          !.env_key = env_key, !.pc = "ready"]
        g == IF cls \in EagerClasses THEN Llm(self) ELSE self
    IN
    IF g.err # "none" THEN [g EXCEPT !.pc = "failed"]
    ELSE [g EXCEPT !.at_init = g.clients]

\* Completions of the title prompt, as sequences of characters.
TitleCompletions == {<<>>, <<" ">>, <<"T", "i">>, <<" ", "T", "i", " ">>}

Whitespace == {" "}

RECURSIVE LStrip(_)
LStrip(t) == IF t # <<>> /\ Head(t) \in Whitespace THEN LStrip(Tail(t)) ELSE t

RECURSIVE RStrip(_)
RStrip(t) ==
    IF t # <<>> /\ t[Len(t)] \in Whitespace THEN RStrip(SubSeq(t, 1, Len(t) - 1)) ELSE t

\* str.strip().
Strip(t) == RStrip(LStrip(t))

\* The generator objects a client is about to construct.
GeneratorUses ==
    {[NoGeneratorObject EXCEPT !.pc = "new", !.cls = c, !.api_key = k, !.env_key = e] :
        c \in GeneratorClasses, k \in KeyValues, e \in EnvValues}

GeneratorInit ==
    /\ NewGenerator
    /\ schema = NoSchemaUse
    /\ cli = NoCli
    /\ gen \in GeneratorUses
    /\ game = NoGame

\* The client constructs the object.
ConstructGenerator ==
    /\ gen.pc = "new"
    /\ gen' = NewObject(gen.cls, gen.api_key, gen.env_key)
    /\ UNCHANGED <<design_doc, op, pc, locals, err, result, hist, schema, cli, game>>

\* Code that holds the object reads its llm property.
ReadLlm ==
    /\ gen.pc = "ready"
    /\ Len(gen.got) < MaxReads
    /\ LET g == Llm(gen) IN
       gen' = IF g.err # "none" THEN [g EXCEPT !.pc = "failed"]
              ELSE [g EXCEPT !.got = Append(@, g.llm)]
    /\ UNCHANGED <<design_doc, op, pc, locals, err, result, hist, schema, cli, game>>

\* TitleGenerator.generate(theme): chain = prompt | self.llm | StrOutputParser()
\* and return chain.invoke({}).strip().
TitleGenerate ==
    /\ gen.pc = "ready"
    /\ gen.cls = "TitleGenerator"
    /\ Len(gen.out) < MaxTitles
    /\ LET g == Llm(gen) IN
       IF g.err # "none" THEN gen' = [g EXCEPT !.pc = "failed"]
       ELSE \/ gen' = [g EXCEPT !.pc = "failed", !.err = "ServiceError"]
            \/ \E t \in TitleCompletions : gen' = [g EXCEPT !.out = Append(@, Strip(t))]
    /\ UNCHANGED <<design_doc, op, pc, locals, err, result, hist, schema, cli, game>>

GeneratorNext ==
    \/ ConstructGenerator
    \/ ReadLlm
    \/ TitleGenerate

GeneratorSpec == GeneratorInit /\ [][GeneratorNext]_vars

----------------------------------------------------------------------------
(* llm/generators/cli.py: main() and generate_world().                      *)

\* args.api_key or os.environ.get("OPENAI_API_KEY").
ResolveKey(arg_key, env_key) == IF Truthy(arg_key) THEN arg_key ELSE env_key

\* Mutation of ExitCode: main() returns 0 from its except branch too.
ExitCodeAlwaysZero(raised) == IF raised THEN 0 ELSE 0

\* main(): return 0 after generate_world returned, return 1 in the except
\* branch.
ExitCode(raised) == IF raised THEN 1 ELSE 0

\* The JSON text of a world generate() returned: a WorldModel that validated
\* holds its global entities as a list.
WorldJson(w) == Json([w EXCEPT !.global_entities = w.global_entities.entries])

\* The file open(output_path, "w") leaves before anything is written to it.
EmptyFile == [kind |-> "empty"]

\* The runs: of main() with its arguments and environment, or of
\* generate_world(api_key, output_path) called by other code.
CliRuns ==
    {[NoCli EXCEPT !.pc = e, !.entry = e, !.arg_key = a, !.env_key = v, !.output = o,
                   !.disk_ok = d, !.api_key = IF e = "main" THEN None ELSE a] :
        e \in {"main", "generate_world"}, a \in KeyValues, v \in EnvValues,
        o \in {None, "out.json"}, d \in BOOLEAN}

CliInit ==
    /\ NewGenerator
    /\ schema = NoSchemaUse
    /\ cli \in CliRuns
    /\ gen = NoGeneratorObject
    /\ game = NoGame

\* The exception e leaves generate_world: main() catches it ("except
\* Exception"), prints it and returns; any other caller gets the exception.
CliRaise(c, e) ==
    IF c.entry = "main"
    THEN [c EXCEPT !.pc = "exited", !.err = e, !.code = {ExitCode(TRUE)}]
    ELSE [c EXCEPT !.pc = "raised", !.err = e]

\* generate_world returns the world w.
CliReturn(c, w) ==
    IF c.entry = "main"
    THEN [c EXCEPT !.pc = "exited", !.world = {w}, !.code = {ExitCode(FALSE)}]
    ELSE [c EXCEPT !.pc = "returned", !.world = {w}]

\* main() up to the call of generate_world: the key is resolved and, when
\* there is none, the usage text is printed and 1 is returned.
Main ==
    /\ cli.pc = "main"
    /\ LET api_key == ResolveKey(cli.arg_key, cli.env_key) IN
       cli' = IF ~Truthy(api_key)
              THEN [cli EXCEPT !.pc = "exited", !.code = {1}]
              ELSE [cli EXCEPT !.pc = "generate_world", !.api_key = api_key]
    /\ UNCHANGED <<design_doc, op, pc, locals, err, result, hist, schema, gen, game>>

\* generate_world: generator = WorldGenerator(api_key=api_key, ...) and the
\* call generator.generate().
GenerateWorld ==
    /\ cli.pc = "generate_world"
    /\ LET g == NewObject("WorldGenerator", cli.api_key, cli.env_key) IN
       /\ gen' = g
       /\ IF g.pc = "failed"
          THEN /\ cli' = CliRaise(cli, g.err)
               /\ UNCHANGED <<design_doc, op, pc, locals, err, result, hist>>
          ELSE /\ cli' = [cli EXCEPT !.pc = "generating", !.generators = @ + 1,
                                     !.generates = @ + 1]
               /\ StartGenerate(1)
    /\ UNCHANGED <<schema, game>>

\* generate_world once generator.generate() has ended: its exception goes on
\* to the caller; its world is printed, written to output_path when one is
\* given (open, then world.model_dump_json) and returned.
GenerateWorldEnd ==
    /\ cli.pc = "generating"
    /\ pc[1] \in Terminal
    /\ cli' =
          IF pc[1] = "failed" THEN CliRaise(cli, err[1])
          ELSE LET world == CHOOSE w \in result[1] : TRUE IN
               IF ~Truthy(cli.output) THEN CliReturn(cli, world)
               ELSE IF ~cli.disk_ok THEN CliRaise(cli, "OSError")
               ELSE IF WriterMethod("cli") \notin BaseModelMethods
               THEN CliRaise([cli EXCEPT !.file = {EmptyFile}], "AttributeError")
               ELSE CliReturn([cli EXCEPT !.file = {WorldJson(world)}], world)
    /\ UNCHANGED <<design_doc, op, pc, locals, err, result, hist, schema, gen, game>>

\* A run of cli.py.  generate() is the one call made on the generator; it
\* never gets as far as the item parser (GenerateItemsPrompt raises for every
\* mechanic), so the two steps of that parser are no part of it.
CliNext ==
    \/ Main
    \/ GenerateWorld
    \/ GenerateThemes(1)
    \/ GenerateTitle(1)
    \/ GeneratePlot(1)
    \/ GenerateGameMechanics(1)
    \/ GmRepair(1)
    \/ GmFallback(1)
    \/ ProcessMechanics(1)
    \/ ItemsLoop(1)
    \/ GenerateItemsPrompt(1)
    \/ Assemble(1)
    \/ GenerateWorldEnd

CliSpec == CliInit /\ [][CliNext]_vars

----------------------------------------------------------------------------
(* game/world_tools.py: new_world().                                        *)

\* The documents world_model.json can hold: with and without a theme, without
\* and with an item, and every shape of global_entities.
WorldFileDocs ==
    {d \in WorldDocs :
        /\ d.title = "Ti"
        /\ d.plot = "P"
        /\ d.mechanics = ObjectOf(<<MechDict("M1", "D")>>)
        /\ d.items \in {ObjectOf(<<>>), ObjectOf(<<ItemDict("I1", "/", "D")>>)}}

\* world_model.json: no such file, a file that is not JSON, or a document.
WorldFiles ==
    {[kind |-> "missing"], [kind |-> "malformed"]}
        \cup {[kind |-> "json", doc |-> d] : d \in WorldFileDocs}

\* Mutation of LoadError: a failure to read the file is reported as a
\* ValueError of new_world's own.
LoadErrorWrapped(file) ==
    IF file.kind \in {"missing", "malformed"} THEN "ValueError"
    ELSE IF WorldModelErrors(file.doc) # {} THEN "ValidationError"
    ELSE "none"

\* with open("world_model.json", "r") as f: WorldModel(**json.load(f)).  What
\* the statement raises; nothing around it catches anything.
LoadError(file) ==
    IF file.kind = "missing" THEN "FileNotFoundError"
    ELSE IF file.kind = "malformed" THEN "JSONDecodeError"
    ELSE IF WorldModelErrors(file.doc) # {} THEN "ValidationError"
    ELSE "none"

\* The type of WorldModel.global_entities once validated: List[EntityModel].
GlobalEntitiesType == "list"

\* container[key] with a str key raises TypeError on a list, whose indices are
\* integers.
StrSubscriptRaises(type) == type = "list"

\* The fields of a ComponentModel.
ComponentModelFields == {"name", "attributes", "pipelines"}

\* The slots of slots.py that new_world binds on the main component.
PredefinedSlots == {"set_value", "change_value", "end_game"}

\* for _ in range(20): the number of item entities new_world places.
ItemsPlaced == 20

\* Position(5, 5) of the player.
PlayerStart == <<5, 5>>

NewWorldInit ==
    /\ NewGenerator
    /\ schema = NoSchemaUse
    /\ cli = NoCli
    /\ gen = NoGeneratorObject
    /\ game \in {[NoGame EXCEPT !.pc = "new_world", !.env_key = e, !.file = f] :
                    e \in EnvValues, f \in WorldFiles}

\* new_world raises e.
GameRaise(g, e) == [g EXCEPT !.pc = "raised", !.err = e]

\* new_world up to llmworld = World(None): the Registry and the player are
\* made, then World.__init__ builds ChatOpenAI(model=..., temperature=1)
\* (llm/world.py:47), which needs OPENAI_API_KEY.
NewWorldBegin ==
    /\ game.pc = "new_world"
    /\ game' = IF ChatOpenAIRaises(None, game.env_key)
               THEN GameRaise([game EXCEPT !.pos = PlayerStart], "OpenAIError")
               ELSE [game EXCEPT !.pc = "load", !.pos = PlayerStart]
    /\ UNCHANGED <<design_doc, op, pc, locals, err, result, hist, schema, cli, gen>>

\* The world document is read and validated.
LoadWorldModel ==
    /\ game.pc = "load"
    /\ game' = IF LoadError(game.file) # "none"
               THEN GameRaise(game, LoadError(game.file))
               ELSE [game EXCEPT !.pc = "populate",
                                 !.world_model = {WorldModel(game.file.doc, "a")}]
    /\ UNCHANGED <<design_doc, op, pc, locals, err, result, hist, schema, cli, gen>>

\* The rest of new_world, in the order of its statements:
\*   world_model.global_entities["Game"].components[0]  (a list, indexed by a str)
\*   .signals["game_start"].emit()                      (signals: no field)
\*   .slots[...] = set_value, change_value, end_game
\*   the other global entities are filed under their names
\*   ItemsPlaced times choice(world_model.items.items)  (IndexError on [])
\*   return world
Populate ==
    /\ game.pc = "populate"
    /\ \E world_model \in game.world_model :
          game' =
             IF StrSubscriptRaises(GlobalEntitiesType)
             THEN GameRaise(game, "TypeError")
             ELSE IF "signals" \notin ComponentModelFields
             THEN GameRaise(game, "AttributeError")
             ELSE LET started ==
                          [game EXCEPT
                              !.emitted = Append(@, [signal |-> "game_start",
                                                     slots |-> game.slots]),
                              !.slots = PredefinedSlots,
                              !.entities =
                                  {world_model.global_entities[i].name :
                                      i \in DOMAIN world_model.global_entities} \ {"Game"}]
                  IN
                  IF world_model.items = <<>>
                  THEN GameRaise(started, "IndexError")
                  ELSE [started EXCEPT !.pc = "returned", !.items = ItemsPlaced,
                                       !.returned = TRUE]
    /\ UNCHANGED <<design_doc, op, pc, locals, err, result, hist, schema, cli, gen>>

NewWorldNext ==
    \/ NewWorldBegin
    \/ LoadWorldModel
    \/ Populate

NewWorldSpec == NewWorldInit /\ [][NewWorldNext]_vars

----------------------------------------------------------------------------
(* game/states.py: InGame.on_event.                                         *)

\* How many events the state handles.
MaxEvents == 3

DIRECTION_KEYS ==
    \* Arrow keys
    ("LEFT" :> <<-1, 0>>) @@ ("RIGHT" :> <<1, 0>>) @@ ("UP" :> <<0, -1>>)
        @@ ("DOWN" :> <<0, 1>>)
    \* Arrow key diagonals
        @@ ("HOME" :> <<-1, -1>>) @@ ("END" :> <<-1, 1>>) @@ ("PAGEUP" :> <<1, -1>>)
        @@ ("PAGEDOWN" :> <<1, 1>>)
    \* Keypad
        @@ ("KP_4" :> <<-1, 0>>) @@ ("KP_6" :> <<1, 0>>) @@ ("KP_8" :> <<0, -1>>)
        @@ ("KP_2" :> <<0, 1>>) @@ ("KP_7" :> <<-1, -1>>) @@ ("KP_1" :> <<-1, 1>>)
        @@ ("KP_9" :> <<1, -1>>) @@ ("KP_3" :> <<1, 1>>)
    \* VI keys
        @@ ("h" :> <<-1, 0>>) @@ ("l" :> <<1, 0>>) @@ ("k" :> <<0, -1>>)
        @@ ("j" :> <<0, 1>>) @@ ("y" :> <<-1, -1>>) @@ ("b" :> <<-1, 1>>)
        @@ ("u" :> <<1, -1>>) @@ ("n" :> <<1, 1>>)

\* The events the state is given: Quit, and presses and releases of a few keys.
KeySyms == {"LEFT", "l", "k", "x"}
Events ==
    {[type |-> "Quit", sym |-> None]}
        \cup {[type |-> t, sym |-> k] : t \in {"KeyDown", "KeyUp"}, k \in KeySyms}

\* match event: the first case whose pattern and guard hold.
Case(event) ==
    IF event.type = "Quit" THEN "quit"
    ELSE IF event.type = "KeyDown" /\ event.sym \in DOMAIN DIRECTION_KEYS THEN "move"
    ELSE IF event.type = "KeyDown" /\ event.sym = "l" THEN "action_1"
    ELSE IF event.type = "KeyDown" /\ event.sym = "k" THEN "action_2"
    ELSE "none"

\* Where the items on the map lie in g.world, and the text shown on them.
ItemsOnMap == {<<6, 5>>}
StandingOn == "Standing on I1: D"

\* g.world as on_event finds it: the query without components yields
\* matches objects, which have the attributes and signals of a main component
\* (duck) or are bare registry entities.
EventInit ==
    /\ NewGenerator
    /\ schema = NoSchemaUse
    /\ cli = NoCli
    /\ gen = NoGeneratorObject
    /\ game \in {[NoGame EXCEPT !.pc = "in_game", !.matches = m, !.duck = d,
                                !.pos = PlayerStart] :
                    m \in 0..2, d \in BOOLEAN}

\* InGame.on_event(event).
OnEvent(event) ==
    /\ game.pc = "in_game"
    /\ game.events < MaxEvents
    /\ LET g == [game EXCEPT !.events = @ + 1, !.last = event, !.branch = Case(event)]
           delta == DIRECTION_KEYS[event.sym]
           moved == <<game.pos[1] + delta[1], game.pos[2] + delta[2]>>
       IN
       game' =
          IF game.matches # 1
          THEN [g EXCEPT !.pc = "crashed", !.err = "ValueError", !.branch = "none"]
          ELSE IF Case(event) = "quit"
          THEN [g EXCEPT !.pc = "exited", !.err = "SystemExit"]
          ELSE IF Case(event) = "none" THEN g
          ELSE IF ~game.duck
          THEN [g EXCEPT !.pc = "crashed", !.err = "AttributeError"]
          ELSE IF Case(event) = "move"
          THEN [g EXCEPT !.time = @ + 1,
                         !.emitted = Append(@, [signal |-> "tick", arg |-> game.time + 1]),
                         !.pos = moved,
                         !.text = IF moved \in ItemsOnMap THEN StandingOn ELSE ""]
          ELSE [g EXCEPT !.emitted = Append(@, [signal |-> "key_pressed",
                                                arg |-> Case(event)])]
    /\ UNCHANGED <<design_doc, op, pc, locals, err, result, hist, schema, cli, gen>>

EventNext == \E event \in Events : OnEvent(event)

EventSpec == EventInit /\ [][EventNext]_vars

----------------------------------------------------------------------------
(* Properties.                                                             *)

StageOrder == <<"Theme", "Title", "Plot", "Mechanics", "Items", "Assembled">>

\* The log of a run of generate() that goes through: each stage starts and
\* returns, in the order of StageOrder.
FullLog ==
    [i \in 1..(2 * Len(StageOrder)) |->
        Ev(IF i % 2 = 1 THEN "start" ELSE "return", StageOrder[(i + 1) \div 2])]

GenerateRuns == {r \in Runs : op[r] = "generate"}

\* C1: in every run of generate() the stages execute in the order Theme,
\* Title, Plot, Mechanics, Items, Assembled: the log of the run is a prefix of
\* FullLog (so a stage starts only when the one before it has returned, none
\* runs twice, none is skipped or overtaken), except that the last stage
\* reached may have raised instead of returning, which ends the run.
C1_StagesInOrder ==
    \A r \in Runs :
        LET log == hist[r].stage_log IN
        /\ Len(log) <= Len(FullLog)
        /\ \A i \in DOMAIN log :
              \/ log[i] = FullLog[i]
              \/ /\ i = Len(log)
                 /\ FullLog[i].ev = "return"
                 /\ log[i] = Ev("raise", FullLog[i].stage)
                 /\ pc[r] = "failed"

\* A run has gone through Theme, Title, Plot and Mechanics and has started
\* the Items stage.
C1_Witness ==
    \E r \in Runs :
        /\ Len(hist[r].stage_log) >= 9
        /\ hist[r].stage_log[9] = Ev("start", "Items")
        /\ \A s \in {"Theme", "Title", "Plot", "Mechanics"} : hist[r].calls[s] >= 1

\* A run of generate() in which no CompletionService call failed, every
\* response parsed (directly or after the repair) and at least one mechanic
\* reached the Items stage.
CleanRun(r) ==
    /\ op[r] = "generate"
    /\ ~hist[r].svc_raised
    /\ ~hist[r].parse_failed
    /\ hist[r].items_doc # <<>>

\* C2: a run of generate() in which no CompletionService call fails and every
\* response is parseable ends in Assembled and returns one WorldModel holding
\* the run's theme, title, plot, at least one mechanic, and items.
C2_CleanRunAssembles ==
    \A r \in Runs :
        (CleanRun(r) /\ pc[r] \in Terminal) =>
            /\ pc[r] = "done"
            /\ Cardinality(result[r]) = 1
            /\ \A w \in result[r] :
                  /\ <<DocLine("Theme", w.theme), DocLine("Title", w.title),
                       DocLine("Plot", w.plot)>> = hist[r].out
                  /\ Len(w.mechanics) >= 1

RepairRule(S) ==
    \A r \in Runs :
        /\ \A s \in S :
              /\ hist[r].repairs[s] <= 1
              /\ s \in hist[r].unparsed =>
                    \/ hist[r].repairs[s] = 1
                    \/ /\ hist[r].repairs[s] = 0
                       /\ pc[r] = (IF s = "Mechanics" THEN "gm_repair" ELSE "items_repair")
        /\ ("Mechanics" \in S /\ pc[r] = "process" /\ hist[r].gm_path = "repaired") =>
              /\ hist[r].calls["Mechanics"] = 2
              /\ GmParses(locals[r].completion)
              /\ locals[r].mechanics_list = GmParsed(locals[r].completion)
        /\ ("Items" \in S /\ pc[r] = "done" /\ op[r] = "generate_items"
                /\ "Items" \in hist[r].unparsed) =>
              /\ hist[r].calls["Items"] = 2
              /\ ItemsParses(locals[r].completion)
              /\ locals[r].all_items = ItemsParsed(locals[r].completion)

C5_AtMostTwoCallsPerStage ==
    \A r \in Runs : \A s \in StageNames : hist[r].calls[s] <= 2

\* C6: when the Mechanics responses of the initial and of the repair call are
\* invalid JSON and the raw text does not decode either, the Mechanics stage
\* returns the one synthetic mechanic, named after the theme, and does not
\* raise.
C6_SyntheticFallbackReturned ==
    \A r \in Runs :
        (hist[r].gm_json = <<FALSE, FALSE>> /\ hist[r].gm_raw = "not_json") =>
            /\ pc[r] = "process"
            /\ Len(locals[r].mechanics_list) = 1
            /\ locals[r].mechanics_list[1].name = "Adventure in " \o locals[r].theme

\* C7: when the Mechanics stage takes a degraded path (its responses stayed
\* unparseable and the fallback branch got an answer from the service), the
\* run does not fail.
C7_DegradedRunGoesOn ==
    \A r \in Runs :
        (hist[r].parse_failed /\ hist[r].gm_raw # "none") => pc[r] # "failed"

\* C8: a ServiceError raised by a CompletionService call is propagated to the
\* caller of generate(): once a call has raised, the run has failed with it.
C8_ServiceErrorPropagates ==
    \A r \in Runs :
        hist[r].svc_raised => (pc[r] = "failed" /\ err[r] = "ServiceError")

\* C9: generate() never returns a partial WorldModel: a run that has not
\* finished or has raised has handed no WorldModel to its caller, a WorldModel
\* that was returned comes from a run all of whose stages returned, and the
\* WorldModel is constructed only after Theme, Title, Plot, Mechanics and
\* Items have returned.
C9_NoPartialWorldModel ==
    \A r \in Runs :
        /\ pc[r] # "done" => result[r] = {}
        /\ result[r] # {} => (op[r] = "generate" /\ hist[r].stage_log = FullLog)
        /\ \A i \in DOMAIN hist[r].stage_log :
              hist[r].stage_log[i].stage = "Assembled" =>
                  \A s \in {"Theme", "Title", "Plot", "Mechanics", "Items"} :
                      \E j \in 1..(i - 1) : hist[r].stage_log[j] = Ev("return", s)

\* A run raised after its Mechanics stage had returned: theme, title, plot
\* and mechanics existed, and the caller got no WorldModel.
C9_Witness ==
    \E r \in Runs :
        /\ pc[r] = "failed"
        /\ \E i \in DOMAIN hist[r].stage_log :
              hist[r].stage_log[i] = Ev("return", "Mechanics")
        /\ result[r] = {}

\* C10: runs of generate() are independent: the design document an items
\* prompt of a run reads holds that run's theme, title and plot lines and
\* nothing another run wrote.
C10_PromptHoldsOwnRunOnly ==
    \A r \in GenerateRuns :
        \A k \in DOMAIN hist[r].items_doc : hist[r].items_doc[k] = hist[r].out

----------------------------------------------------------------------------
(* Properties of what the stages accept and return.                        *)

\* Stage s of call r has returned.
Returned(r, s) ==
    \E i \in DOMAIN hist[r].stage_log : hist[r].stage_log[i] = Ev("return", s)

\* No two entries of the sequence q are equal.
Distinct(q) == \A i, j \in DOMAIN q : i # j => q[i] # q[j]

RECURSIVE Flatten(_)
\* The concatenation of the sequences of qs, in order.
Flatten(qs) == IF qs = <<>> THEN <<>> ELSE Head(qs) \o Flatten(Tail(qs))

\* The item lists the Items stage has handed back in call r: to the client of
\* a direct generate_items call, or to the loop of generate().
StageItems(r) ==
    IF op[r] = "generate_items" /\ pc[r] = "done"
    THEN {locals[r].all_items}
    ELSE {hist[r].items_out[k] : k \in DOMAIN hist[r].items_out}

\* C11: when the Items response stays unparseable after the repair call, the
\* stage tries a plain JSON decode of the raw text before it gives up: it
\* fails for good only on a text that does not decode either.
C11_ItemsRawJsonFallback ==
    \A r \in Runs :
        (err[r] = "OutputParserException" /\ hist[r].repairs["Items"] = 1) =>
            hist[r].items_json[Len(hist[r].items_json)] = FALSE

\* C12: every mechanic set the Mechanics stage returns, on whichever path, and
\* every one stored in a WorldModel has 2 to 7 mechanics with pairwise
\* distinct names.
C12_MechanicsCountAndNames ==
    \A r \in Runs :
        /\ Returned(r, "Mechanics") =>
              /\ Len(hist[r].gm_out) \in 2..7
              /\ Distinct(hist[r].gm_out)
        /\ \A w \in result[r] :
              /\ Len(w.mechanics) \in 2..7
              /\ Distinct(Names(w.mechanics))

\* C13: in every WorldModel the pipeline returns, and so in every item list
\* its Items stage hands back, each symbol has exactly one character and no
\* two items have the same name.
C13_ItemSymbolsAndNames ==
    \A r \in Runs :
        \A items \in StageItems(r) \cup {w.items : w \in result[r]} :
            /\ \A i \in DOMAIN items : Len(items[i].ascii_symbol) = 1
            /\ Distinct(Names(items))

\* C14: every theme batch the Theme stage accepts has exactly 10 entries,
\* pairwise distinct.
C14_AcceptedBatchHasTenDistinct ==
    \A r \in Runs :
        Returned(r, "Theme") =>
            /\ Len(hist[r].theme_batch) >= min_items
            /\ Len(hist[r].theme_batch) <= max_items
            /\ Distinct(hist[r].theme_batch)

\* C15: the theme the Theme stage returns is an entry of the batch decoded
\* from its response, and that value is the theme argument of the Title, Plot
\* and Mechanics calls, in that order, and the theme the WorldModel is built
\* with.
C15_SelectedThemeFlows ==
    \A r \in GenerateRuns :
        Returned(r, "Theme") =>
            LET th == hist[r].out[1].v
                args == hist[r].theme_args
            IN
            /\ \E i \in DOMAIN hist[r].theme_batch : hist[r].theme_batch[i] = th
            /\ Len(args) <= 3
            /\ \A i \in DOMAIN args :
                  /\ args[i].stage = <<"Title", "Plot", "Mechanics">>[i]
                  /\ args[i].theme = th
            /\ pc[r] = "assemble" => AssembledWorld(locals[r]).theme = th
            /\ \A w \in result[r] : w.theme = th

\* A run drew the second theme of a batch of two, gave it to the three later
\* stages and stands at the construction of the WorldModel.
C15_Witness ==
    \E r \in GenerateRuns :
        /\ pc[r] = "assemble"
        /\ hist[r].theme_batch = <<"T1", "T2">>
        /\ hist[r].out[1].v = "T2"
        /\ Len(hist[r].theme_args) = 3

\* The names of the mechanics the items of call r belong with: those the
\* Mechanics stage returned, or those of the argument of a direct call.
MechanicNames(r) ==
    {hist[r].gm_out[j] : j \in DOMAIN hist[r].gm_out}
        \cup {locals[r].game_mechanic[j].name : j \in DOMAIN locals[r].game_mechanic}

\* C16: every item of an assembled WorldModel, and so every item the Items
\* stage hands back, carries a supportingMechanic that is the name of one of
\* the mechanics it belongs with.
C16_ItemsReferenceMechanics ==
    \A r \in Runs :
        /\ \A items \in StageItems(r) : \A i \in DOMAIN items :
              /\ "supportingMechanic" \in DOMAIN items[i]
              /\ items[i].supportingMechanic \in MechanicNames(r)
        /\ \A w \in result[r] : \A i \in DOMAIN w.items :
              /\ "supportingMechanic" \in DOMAIN w.items[i]
              /\ \E j \in DOMAIN w.mechanics :
                    w.items[i].supportingMechanic = w.mechanics[j].name

\* C20: in a run of generate() whose calls all succeeded and whose responses
\* all parsed, the Items stage is invoked exactly once per mechanic, in the
\* order of the mechanics, and the items of the WorldModel are the
\* concatenation of what the invocations returned, in that order.
C20_ItemsFollowMechanicsOrder ==
    \A r \in GenerateRuns :
        (CleanRun(r) /\ pc[r] \in Terminal) =>
            /\ Len(hist[r].items_doc) = Len(hist[r].gm_out)
            /\ Len(hist[r].items_out) = Len(hist[r].gm_out)
            /\ \A w \in result[r] : w.items = Flatten(hist[r].items_out)

\* C23: the Title stage always returns a non-empty string: whatever the
\* CompletionService answers, the empty text included, the title the stage
\* returned, and the one of a WorldModel, has length greater than 0.
C23_TitleNonEmpty ==
    \A r \in GenerateRuns :
        /\ \A i \in DOMAIN hist[r].out :
              hist[r].out[i].k = "Title" => Len(hist[r].out[i].v) > 0
        /\ \A w \in result[r] : Len(w.title) > 0

\* C24: a generate_items call given a GameMechanics of a single mechanic asks
\* the CompletionService for items and, when it returns, returns the item list
\* parsed from the response, same items in the same order (none for an empty
\* list).
C24_SingleMechanicItemsReturned ==
    \A r \in Runs :
        (/\ op[r] = "generate_items"
         /\ Len(hist[r].items_arg) = 1
         /\ pc[r] \in Terminal) =>
            /\ hist[r].calls["Items"] >= 1
            /\ pc[r] = "done" =>
                  /\ ItemsParses(locals[r].completion)
                  /\ locals[r].all_items = ItemsParsed(locals[r].completion)

----------------------------------------------------------------------------
(* Properties of the schema classes, under SchemaSpec.                     *)

\* The document has every key of a world file with valid content, its
\* global_entities apart.
FullDocument(doc) ==
    /\ doc.theme # Missing /\ doc.title # Missing /\ doc.plot # Missing
    /\ doc.mechanics.kind = "object"
    /\ \A i \in DOMAIN doc.mechanics.list : GameMechanicValid(doc.mechanics.list[i])
    /\ doc.items.kind = "object"
    /\ \A i \in DOMAIN doc.items.list : ItemValid(doc.items.list[i])

\* C17: a valid WorldModel, with or without global entities, can be written
\* to the world file by either writer and read back, and what is read back
\* equals the original field for field.
C17_RoundTrip ==
    schema.target = "WorldModel" =>
        /\ schema.pc \notin {"write_failed", "load_failed"}
        /\ schema.pc = "loaded" => schema.reloaded = schema.built

\* C18: building a WorldModel from a document that has theme, title, plot,
\* mechanics, items and a name-keyed mapping (possibly empty) as
\* global_entities succeeds and keeps the theme, the title and the numbers of
\* mechanics and items.
C18_MappingDocumentBuilds ==
    (/\ schema.target = "WorldModel"
     /\ schema.pc # "new"
     /\ FullDocument(schema.data)
     /\ schema.data.global_entities.kind = "dict") =>
        /\ schema.pc # "invalid"
        /\ \A w \in schema.built :
              /\ w.theme = schema.data.theme
              /\ w.title = schema.data.title
              /\ Len(w.mechanics) = Len(schema.data.mechanics.list)
              /\ Len(w.items) = Len(schema.data.items.list)

\* The required fields the data of the client has no value for.
MissingRequired ==
    IF schema.target = "Item"
    THEN {g \in {"name", "ascii_symbol", "description"} : schema.data[g] = Missing}
    ELSE IF schema.target = "WorldModel"
    THEN {g \in {"theme", "title", "plot"} : schema.data[g] = Missing}
            \cup {g \in {"mechanics", "items"} : schema.data[g].kind = "missing"}
    ELSE {}

\* C19: building a WorldModel or an Item from data that lacks a required
\* field fails with a ValidationError that names every such field, and no
\* object is produced.
C19_MissingFieldIsNamed ==
    (schema.pc # "new" /\ MissingRequired # {}) =>
        /\ schema.pc = "invalid"
        /\ schema.err = "ValidationError"
        /\ schema.built = {}
        /\ \A g \in MissingRequired : <<g>> \in schema.loc

\* WorldModel was called with a document that holds a theme and nothing else,
\* and raised.
C19_Witness ==
    /\ schema.target = "WorldModel"
    /\ schema.pc = "invalid"
    /\ schema.data.theme = "T1"
    /\ schema.loc = {<<"title">>, <<"plot">>, <<"mechanics">>, <<"items">>}

----------------------------------------------------------------------------
(* Properties of cli.py, under CliSpec.                                     *)

\* generate() returned a world to generate_world.
Generated == pc[1] = "done" /\ result[1] # {}

\* The output file holds a world.
Written == cli.file # {} /\ cli.file # {EmptyFile}

\* No credential is available: no api_key argument and no OPENAI_API_KEY.
NoCredential == ~Truthy(cli.arg_key) /\ cli.env_key = None

\* C21: main() returns 0 exactly when a world was generated (and, with an
\* output path, written) and 1 on every error: no credential, an exception
\* raised during generation, a failure to write the file.  It returns nothing
\* else, and nothing before it is done.
C21_ExitCodes ==
    cli.entry = "main" =>
        /\ cli.pc # "exited" => cli.code = {}
        /\ cli.pc = "exited" =>
              /\ cli.code \in {{0}, {1}}
              /\ cli.code = {0} <=> (Generated /\ (Truthy(cli.output) => Written))
              /\ (NoCredential \/ pc[1] = "failed" \/ cli.err # "none") => cli.code = {1}

\* main() was given a key, generate() got as far as the Mechanics stage and
\* raised, and main() returned 1.
C21_Witness ==
    /\ cli.entry = "main"
    /\ cli.pc = "exited"
    /\ cli.code = {1}
    /\ ~NoCredential
    /\ pc[1] = "failed"
    /\ hist[1].calls["Mechanics"] >= 1
    /\ cli.err = err[1]

\* C22: when no credential is available, no generator stage is started and
\* no CompletionService call is made: the absence is found before generate()
\* runs.
C22_NoCredentialNoStage ==
    (cli.entry # "none" /\ NoCredential) =>
        /\ cli.generates = 0
        /\ pc[1] = "idle"
        /\ hist[1].stage_log = <<>>
        /\ \A s \in StageNames : hist[1].calls[s] = 0

\* main() ran without --api-key and without OPENAI_API_KEY and returned 1.
C22_Witness ==
    /\ cli.entry = "main"
    /\ NoCredential
    /\ cli.pc = "exited"
    /\ cli.code = {1}

\* C25: a generate_world call whose CompletionService calls all succeed with
\* parseable responses builds one WorldGenerator, calls generate() once,
\* returns the world generate() produced and, given an output path, leaves
\* that world's JSON in the file.
C25_GenerateWorldReturnsWorld ==
    (/\ cli.generates >= 1
     /\ cli.pc \in {"exited", "returned", "raised"}
     /\ ~hist[1].svc_raised
     /\ ~hist[1].parse_failed) =>
        /\ cli.generators = 1
        /\ cli.generates = 1
        /\ cli.world # {}
        /\ cli.world = result[1]
        /\ (Truthy(cli.output) /\ cli.disk_ok) =>
              \A w \in cli.world : cli.file = {WorldJson(w)}

----------------------------------------------------------------------------
(* Properties of the generator objects, under GeneratorSpec.                *)

\* C26: constructing a generator creates no LLM client; the client is created
\* by the first read of llm after construction, at most once per object, and
\* every later read returns that same client.
C26_ClientCreatedLazilyOnce ==
    gen.pc = "ready" =>
        /\ gen.at_init = 0
        /\ gen.clients <= 1
        /\ gen.clients = (IF gen.got = <<>> /\ gen.out = <<>> THEN 0 ELSE 1)
        /\ \A i \in DOMAIN gen.got : gen.got[i] = gen.llm

----------------------------------------------------------------------------
(* Properties of new_world(), under NewWorldSpec.                           *)

\* new_world has returned or raised.
NewWorldEnded == game.pc \in {"returned", "raised"}

\* world_model.json holds a world document with a "Game" global entity and at
\* least one item, every required field present.
ValidWorldFile ==
    /\ game.file.kind = "json"
    /\ FullDocument(game.file.doc)
    /\ game.file.doc.items.list # <<>>
    /\ \E i \in DOMAIN game.file.doc.global_entities.entries :
          LET e == game.file.doc.global_entities.entries[i] IN
          e.key = "Game" \/ e.name = "Game"

\* C27: new_world(), with the client key set and a readable world_model.json
\* holding a valid world document, runs to completion and returns the
\* Registry it created.
C27_NewWorldReturnsRegistry ==
    (NewWorldEnded /\ ValidWorldFile /\ game.env_key # None) =>
        /\ game.returned
        /\ game.err = "none"

\* C28 as claimed: a missing world_model.json makes new_world raise
\* FileNotFoundError and a malformed one JSONDecodeError, and no Registry is
\* returned.
C28_LoadFailurePropagates ==
    NewWorldEnded =>
        /\ game.file.kind = "missing" => (game.err = "FileNotFoundError" /\ ~game.returned)
        /\ game.file.kind = "malformed" => (game.err = "JSONDecodeError" /\ ~game.returned)

\* C28, amended: when OPENAI_API_KEY is set, so that World(None) is built, a
\* missing world_model.json makes new_world raise FileNotFoundError and a
\* malformed one JSONDecodeError, unchanged; when it is not set, new_world
\* raises the client's error before it opens the file.  In every case no
\* Registry is returned.
C28_LoadFailurePropagatesWithKey ==
    (NewWorldEnded /\ game.file.kind \in {"missing", "malformed"}) =>
        /\ ~game.returned
        /\ game.world_model = {}
        /\ game.err = (IF game.env_key = None THEN "OpenAIError"
                       ELSE IF game.file.kind = "missing" THEN "FileNotFoundError"
                       ELSE "JSONDecodeError")

\* new_world found no world_model.json and raised FileNotFoundError.
C28_Witness ==
    /\ game.pc = "raised"
    /\ game.file.kind = "missing"
    /\ game.env_key # None
    /\ game.err = "FileNotFoundError"

\* C29: in new_world() the slots set_value, change_value and end_game are
\* bound on the main component of the Game entity before its game_start
\* signal is emitted: a call that loaded its world document emits game_start,
\* and every signal is emitted with the three slots bound.
C29_SlotsBoundBeforeGameStart ==
    /\ \A i \in DOMAIN game.emitted : game.emitted[i].slots = PredefinedSlots
    /\ (NewWorldEnded /\ ValidWorldFile /\ game.world_model # {}) =>
          /\ game.slots = PredefinedSlots
          /\ \E i \in DOMAIN game.emitted : game.emitted[i].signal = "game_start"

----------------------------------------------------------------------------
(* Properties of InGame.on_event, under EventSpec.                          *)

\* C30: a KeyDown of l emits key_pressed with "action_1" and a KeyDown of k
\* emits it with "action_2", and such a press is not handled as a movement.
C30_ActionKeysEmitKeyPressed ==
    \A a \in {[sym |-> "l", arg |-> "action_1"], [sym |-> "k", arg |-> "action_2"]} :
        (/\ game.pc = "in_game"
         /\ game.events >= 1
         /\ game.last = [type |-> "KeyDown", sym |-> a.sym]) =>
            /\ game.branch = a.arg
            /\ game.emitted # <<>>
            /\ game.emitted[Len(game.emitted)].signal = "key_pressed"
            /\ game.emitted[Len(game.emitted)].arg = a.arg

====
